---- MODULE Spec2Model ----
(***************************************************************************)
(* Two-phase commit: one Coordinator (coordinator.py) and the Participants *)
(* (participant.py).  Every thread of the two programs is a process of the *)
(* model: the coordinator's transaction driver (one per transaction), its  *)
(* connection handlers and its operator shell (crash / recover), and each  *)
(* participant's request handlers, timeout workers and operator shell.     *)
(* A blocking request/reply exchange on one connection is one step; the    *)
(* deferred VOTE_RESPONSE / ACK_RESPONSE envelopes travel through net.     *)
(* Sleeps are abstracted to their order: a 30 s timeout worker has fired   *)
(* before a 60 s poll that began after it reaches its deadline (timing).   *)
(***************************************************************************)
EXTENDS Naturals, Sequences, FiniteSets, TLC

\* ------------------------------------------------------------ bounds
MaxTx == 1            \* transactions the operator starts
MaxCrash == 1         \* 'crash' commands typed at the coordinator
MaxPCrash == 1        \* 'crash' commands typed at the participants, in total
MaxConcurrent == 2    \* transactions in flight at once in SpecConcurrent

ParticipantIds == {"P1", "P2"}
FirstParticipant == "P1"
Payloads == {"d1"}
FailureRates == {0, 50}       \* percent: never / sometimes

NONE == <<>>                  \* Python's None for a pending slot
EmptyMap == [x \in {} |-> TRUE]

Put(m, k, v) == [x \in (DOMAIN m) \cup {k} |-> IF x = k THEN v ELSE m[x]]
Range(s) == {s[i] : i \in DOMAIN s}

VARIABLES
    participants,            \* Coordinator.participants, in insertion order
    transactions,            \* Coordinator.transactions
    transaction_history,     \* Coordinator.transaction_history
    crashed,                 \* Coordinator.crashed
    ncrash,                  \* crash commands the coordinator's operator typed
    drv,                     \* the execute_transaction thread of each transaction
    rec,                     \* the operator thread inside _recover_coordinator
    net,                     \* envelopes sent to the coordinator, not yet handled
    sent,                    \* history: the envelopes sent in a crash-free run
    vote_missing,            \* history: <<tx, id>> with no vote when the poll ended,
                             \* kept until the coordinator's first crash command
    late,                    \* timing: <<id, slot>> filled after the ack poll began
    seen,                    \* history: the kinds of event that have occurred
    prepared_transactions,   \* Participant.prepared_transactions, per participant
    committed_transactions,  \* Participant.committed_transactions
    aborted_transactions,    \* Participant.aborted_transactions
    pending_vote,            \* Participant.pending_vote
    pending_commit,          \* Participant.pending_commit
    pending_abort,           \* Participant.pending_abort
    p_crashed,               \* Participant.crashed
    failure_rate,            \* Participant.failure_rate
    p_pc,                    \* the participant's shell: down / idle / recovering
    npcrash                  \* crash commands typed at participants

cvars == <<participants, transactions, transaction_history, crashed, ncrash, drv, rec>>
pcoll == <<prepared_transactions, committed_transactions, aborted_transactions>>
pslot == <<pending_vote, pending_commit, pending_abort>>
pctl  == <<p_crashed, failure_rate, p_pc, npcrash>>
pvars == <<pcoll, pslot, pctl>>
hvars == <<sent, vote_missing, late, seen>>
vars  == <<cvars, net, hvars, pvars>>

Init ==
    /\ participants = <<>>
    /\ transactions = EmptyMap
    /\ transaction_history = <<>>
    /\ crashed = FALSE
    /\ ncrash = 0
    /\ drv = EmptyMap
    /\ rec = [pc |-> "idle", todo |-> <<>>, kind |-> "NONE", idx |-> 0,
              response |-> "NONE"]
    /\ net = {}
    /\ sent = {}
    /\ vote_missing = {}
    /\ late = {}
    /\ seen = {}
    /\ prepared_transactions = [p \in ParticipantIds |-> {}]
    /\ committed_transactions = [p \in ParticipantIds |-> EmptyMap]
    /\ aborted_transactions = [p \in ParticipantIds |-> {}]
    /\ pending_vote = [p \in ParticipantIds |-> NONE]
    /\ pending_commit = [p \in ParticipantIds |-> NONE]
    /\ pending_abort = [p \in ParticipantIds |-> NONE]
    /\ p_crashed = [p \in ParticipantIds |-> FALSE]
    /\ failure_rate = [p \in ParticipantIds |-> 0]
    /\ p_pc = [p \in ParticipantIds |-> "down"]
    /\ npcrash = 0

\* ============================================================ participant

\* random.random() < self.failure_rate: the outcomes the draw can have
simulated_failure(p) == IF failure_rate[p] > 0 THEN BOOLEAN ELSE {FALSE}

\* _handle_prepare past the failure draw: fill the slot, start the timeout worker
handle_prepare(p, t, d) ==
    /\ pending_vote' = [pending_vote EXCEPT ![p] = <<t, d>>]
    /\ UNCHANGED <<pcoll, pending_commit, pending_abort, pctl>>

\* a _handle_commit without the prepared test: every COMMIT is made pending
handle_commit_unchecked(p, t, d, reply) ==
    /\ reply = "NONE"
    /\ pending_commit' = [pending_commit EXCEPT ![p] = <<t, d>>]
    /\ UNCHANGED <<pcoll, pending_vote, pending_abort, pctl>>

\* _handle_commit: reject an id that is not prepared, else fill pending_commit
handle_commit(p, t, d, reply) ==
    IF t \notin prepared_transactions[p]
    THEN /\ reply = "ACK_ABORT"
         /\ UNCHANGED pvars
    ELSE /\ reply = "NONE"
         /\ pending_commit' = [pending_commit EXCEPT ![p] = <<t, d>>]
         /\ UNCHANGED <<pcoll, pending_vote, pending_abort, pctl>>

\* _handle_abort: fill pending_abort, start the timeout worker
handle_abort(p, t, d) ==
    /\ pending_abort' = [pending_abort EXCEPT ![p] = <<t, d>>]
    /\ UNCHANGED <<pcoll, pending_vote, pending_commit, pctl>>

\* _handle_query_state: the status the participant reports for an id
handle_query_state(p, t) ==
    IF t \in DOMAIN committed_transactions[p] THEN "COMMITTED"
    ELSE IF t \in prepared_transactions[p] THEN "PREPARED"
    ELSE IF t \in aborted_transactions[p] THEN "ABORTED"
    ELSE "UNKNOWN"

\* _handle_request + _process_message: one inbound connection from the
\* coordinator, with the reply written back on it ("NONE": closed silently)
handle_request(p, kind, t, d, reply) ==
    IF p_crashed[p]
    THEN /\ reply = "NONE"
         /\ UNCHANGED pvars
    ELSE \E fail \in simulated_failure(p) :
         IF fail
         THEN /\ reply = (IF kind = "PREPARE" THEN "VOTE_NO" ELSE "NONE")
              /\ UNCHANGED pvars
         ELSE CASE kind = "PREPARE" ->
                   \E fail2 \in simulated_failure(p) :
                      IF fail2
                      THEN reply = "VOTE_NO" /\ UNCHANGED pvars
                      ELSE reply = "NONE" /\ handle_prepare(p, t, d)
                [] kind = "COMMIT" -> handle_commit(p, t, d, reply)
                [] kind = "ABORT" -> reply = "NONE" /\ handle_abort(p, t, d)

Replies == {"NONE", "VOTE_NO", "ACK_ABORT"}

\* the REGISTER branch of the coordinator's connection handler:
\* self.participants[participant_id] = (host, port); a known id keeps its place
register(reg, p) == IF p \in Range(reg) THEN reg ELSE Append(reg, p)

\* Participant.start: register with the coordinator, then serve requests.
\* The participants are interchangeable, so the one that starts first is
\* taken to be FirstParticipant.
Start(p) ==
    /\ p_pc[p] = "down"
    /\ p = FirstParticipant \/ p_pc[FirstParticipant] # "down"
    /\ participants' = register(participants, p)
    /\ p_pc' = [p_pc EXCEPT ![p] = "idle"]
    /\ UNCHANGED <<transactions, transaction_history, crashed, ncrash, drv, rec, net,
                   hvars, pcoll, pslot, p_crashed, failure_rate, npcrash>>

\* No crash command has been typed at any node so far.
CrashFree == ncrash = 0 /\ npcrash = 0

\* History of the crash-free runs: sent collects every envelope a participant
\* sends until the first crash command, which empties it for good.
record_sent(e) == sent' = IF CrashFree THEN sent \cup {e} ELSE sent

VoteEnvelope(p, t, yes) ==
    [type |-> "VOTE_RESPONSE", pid |-> p, tx |-> t,
     msg |-> IF yes THEN "VOTE_YES" ELSE "VOTE_NO"]

AckEnvelope(p, t, ack) ==
    [type |-> "ACK_RESPONSE", pid |-> p, tx |-> t, msg |-> ack]

Envelopes ==
    {VoteEnvelope(p, t, yes) : p \in ParticipantIds, t \in 1..MaxTx, yes \in BOOLEAN}
    \cup {AckEnvelope(p, t, ack) : p \in ParticipantIds, t \in 1..MaxTx,
                                   ack \in {"ACK_COMMIT", "ACK_ABORT"}}

\* _send_vote_to_coordinator: a YES vote enters prepared, then the envelope leaves
send_vote_to_coordinator(p, t, yes) ==
    /\ prepared_transactions' =
          IF yes THEN [prepared_transactions EXCEPT ![p] = @ \cup {t}]
                 ELSE prepared_transactions
    /\ net' = net \cup {VoteEnvelope(p, t, yes)}
    /\ record_sent(VoteEnvelope(p, t, yes))

\* _send_ack_to_coordinator
send_ack_to_coordinator(p, t, ack) ==
    /\ net' = net \cup {AckEnvelope(p, t, ack)}
    /\ record_sent(AckEnvelope(p, t, ack))

\* a 'vote' command that reads pending_vote without taking it: the slot stays
\* filled for the timeout worker
handle_vote_command_unlocked(p, yes) ==
    /\ p_pc[p] = "idle"
    /\ pending_vote[p] # NONE
    /\ send_vote_to_coordinator(p, pending_vote[p][1], yes)
    /\ UNCHANGED <<cvars, seen, vote_missing, late, committed_transactions, aborted_transactions,
                   pending_vote, pending_commit, pending_abort, pctl>>

\* _handle_vote_command: the operator's 'vote yes' / 'vote no'
handle_vote_command(p, yes) ==
    /\ p_pc[p] = "idle"
    /\ pending_vote[p] # NONE
    /\ pending_vote' = [pending_vote EXCEPT ![p] = NONE]
    /\ send_vote_to_coordinator(p, pending_vote[p][1], yes)
    /\ UNCHANGED <<cvars, seen, vote_missing, late, committed_transactions, aborted_transactions,
                   pending_commit, pending_abort, pctl>>

\* The _wait_for_* thread started when a slot was filled sleeps 30 s and acts
\* only if the slot still holds its id; a wake-up that finds the slot empty or
\* refilled changes nothing, so the thread is a step enabled while the slot
\* holds the id.  None of the three tests self.crashed.

\* a vote timeout worker that votes NO for its own id whatever the slot holds
wait_for_vote_unchecked(p, t) ==
    /\ pending_vote[p] # NONE
    /\ send_vote_to_coordinator(p, t, FALSE)
    /\ pending_vote' = [pending_vote EXCEPT ![p] = NONE]
    /\ UNCHANGED <<cvars, seen, vote_missing, late, committed_transactions, aborted_transactions,
                   pending_commit, pending_abort, pctl>>

\* _wait_for_vote: 30 s after a PREPARE; votes NO if the slot still holds the id
wait_for_vote_thread(p, t) ==
    /\ pending_vote[p] # NONE /\ pending_vote[p][1] = t
    /\ send_vote_to_coordinator(p, t, FALSE)
    /\ pending_vote' = [pending_vote EXCEPT ![p] = NONE]
    /\ UNCHANGED <<cvars, vote_missing, late, committed_transactions, aborted_transactions,
                   pending_commit, pending_abort, pctl>>

wait_for_vote(p, t) == wait_for_vote_thread(p, t) /\ UNCHANGED seen

\* the same thread, with the fact that it sends inside its 'with self.lock'
\* block entered in the history of events
wait_for_vote_locked(p, t) ==
    wait_for_vote_thread(p, t) /\ seen' = seen \cup {"locked_send"}

\* the commit both the operator's 'ack commit' and the timeout worker perform:
\* if transaction_id in self.prepared_transactions: committed[id] = data; remove
do_commit(p, t, d) ==
    IF t \in prepared_transactions[p]
    THEN /\ committed_transactions' =
               [committed_transactions EXCEPT ![p] = Put(@, t, d)]
         /\ prepared_transactions' = [prepared_transactions EXCEPT ![p] = @ \ {t}]
    ELSE UNCHANGED <<committed_transactions, prepared_transactions>>

\* the abort of 'ack abort' and of the abort timeout worker:
\* drop the id from prepared if it is there, add it to aborted
do_abort(p, t) ==
    /\ prepared_transactions' = [prepared_transactions EXCEPT ![p] = @ \ {t}]
    /\ aborted_transactions' = [aborted_transactions EXCEPT ![p] = @ \cup {t}]

\* _wait_for_ack_commit: 30 s after a COMMIT; acks and commits if the slot matches
wait_for_ack_commit_thread(p, t) ==
    /\ pending_commit[p] # NONE /\ pending_commit[p][1] = t
    /\ send_ack_to_coordinator(p, t, "ACK_COMMIT")
    /\ do_commit(p, t, pending_commit[p][2])
    /\ pending_commit' = [pending_commit EXCEPT ![p] = NONE]
    /\ late' = late \ {<<p, "commit">>}
    /\ UNCHANGED <<cvars, vote_missing, aborted_transactions, pending_vote,
                   pending_abort, pctl>>

wait_for_ack_commit(p, t) == wait_for_ack_commit_thread(p, t) /\ UNCHANGED seen

\* the same thread, with the fact that it sends inside its 'with self.lock'
\* block entered in the history of events
wait_for_ack_commit_locked(p, t) ==
    wait_for_ack_commit_thread(p, t) /\ seen' = seen \cup {"locked_send"}

\* _wait_for_ack_abort: 30 s after an ABORT; acks and aborts if the slot matches
wait_for_ack_abort_thread(p, t) ==
    /\ pending_abort[p] # NONE /\ pending_abort[p][1] = t
    /\ send_ack_to_coordinator(p, t, "ACK_ABORT")
    /\ do_abort(p, t)
    /\ pending_abort' = [pending_abort EXCEPT ![p] = NONE]
    /\ late' = late \ {<<p, "abort">>}
    /\ UNCHANGED <<cvars, vote_missing, committed_transactions, pending_vote,
                   pending_commit, pctl>>

wait_for_ack_abort(p, t) == wait_for_ack_abort_thread(p, t) /\ UNCHANGED seen

\* the same thread, with the fact that it sends inside its 'with self.lock'
\* block entered in the history of events
wait_for_ack_abort_locked(p, t) ==
    wait_for_ack_abort_thread(p, t) /\ seen' = seen \cup {"locked_send"}

\* _handle_ack_command, 'ack commit'
handle_ack_commit_command(p) ==
    /\ p_pc[p] = "idle"
    /\ pending_commit[p] # NONE
    /\ pending_commit' = [pending_commit EXCEPT ![p] = NONE]
    /\ do_commit(p, pending_commit[p][1], pending_commit[p][2])
    /\ send_ack_to_coordinator(p, pending_commit[p][1], "ACK_COMMIT")
    /\ late' = late \ {<<p, "commit">>}
    /\ UNCHANGED <<cvars, seen, vote_missing, aborted_transactions, pending_vote,
                   pending_abort, pctl>>

\* _handle_ack_command, 'ack abort': answers a pending COMMIT first, else a
\* pending ABORT
handle_ack_abort_command(p) ==
    /\ p_pc[p] = "idle"
    /\ \/ /\ pending_commit[p] # NONE
          /\ pending_commit' = [pending_commit EXCEPT ![p] = NONE]
          /\ do_abort(p, pending_commit[p][1])
          /\ send_ack_to_coordinator(p, pending_commit[p][1], "ACK_ABORT")
          /\ late' = late \ {<<p, "commit">>}
          /\ UNCHANGED pending_abort
       \/ /\ pending_commit[p] = NONE
          /\ pending_abort[p] # NONE
          /\ pending_abort' = [pending_abort EXCEPT ![p] = NONE]
          /\ do_abort(p, pending_abort[p][1])
          /\ send_ack_to_coordinator(p, pending_abort[p][1], "ACK_ABORT")
          /\ late' = late \ {<<p, "abort">>}
          /\ UNCHANGED pending_commit
    /\ UNCHANGED <<cvars, seen, vote_missing, committed_transactions, pending_vote, pctl>>

\* Participant._handle_crash
p_handle_crash(p) ==
    /\ p_pc[p] = "idle"
    /\ ~p_crashed[p]
    /\ npcrash < MaxPCrash
    /\ p_crashed' = [p_crashed EXCEPT ![p] = TRUE]
    /\ npcrash' = npcrash + 1
    /\ sent' = {}
    /\ UNCHANGED <<cvars, net, vote_missing, late, seen, pcoll, pslot, failure_rate, p_pc>>

\* Participant._handle_recover, first half: re-register
p_handle_recover(p) ==
    /\ p_pc[p] = "idle"
    /\ p_crashed[p]
    /\ participants' = register(participants, p)
    /\ p_pc' = [p_pc EXCEPT ![p] = "recovering"]
    /\ UNCHANGED <<transactions, transaction_history, crashed, ncrash, drv, rec, net,
                   hvars, pcoll, pslot, p_crashed, failure_rate, npcrash>>

\* the resynchronisation loop of _request_history_from_coordinator over the
\* records of the HISTORY_RESPONSE; st is [prepared, committed, aborted]
\* a resynchronisation that rebuilds committed and aborted from the fetched
\* history alone
sync_history_rebuild(history, st) ==
    LET recs(status) == {i \in DOMAIN history : history[i].status = status}
        ids(status) == {history[i].transaction_id : i \in recs(status)}
    IN [prepared |-> st.prepared \ (ids("COMMITTED") \cup ids("ABORTED")),
        committed |-> [t \in ids("COMMITTED") |->
                         history[CHOOSE i \in recs("COMMITTED") :
                                    history[i].transaction_id = t].data],
        aborted |-> ids("ABORTED")]

\* a resynchronisation that only promotes the ids it finds in prepared
sync_history_promote(history, st) ==
    LET ids(status) == {history[i].transaction_id :
                           i \in {j \in DOMAIN history : history[j].status = status}}
        promoted == ids("COMMITTED") \cap st.prepared
    IN [prepared |-> st.prepared \ (ids("COMMITTED") \cup ids("ABORTED")),
        committed |-> [t \in DOMAIN st.committed \cup promoted |->
                         IF t \in promoted
                         THEN history[CHOOSE i \in DOMAIN history :
                                         /\ history[i].transaction_id = t
                                         /\ history[i].status = "COMMITTED"].data
                         ELSE st.committed[t]],
        aborted |-> st.aborted \cup (ids("ABORTED") \cap st.prepared)]

RECURSIVE sync_history(_, _)
sync_history(history, st) ==
    IF history = <<>> THEN st
    ELSE LET record == Head(history)
             tx_id == record.transaction_id
             next ==
               IF record.status = "COMMITTED"
               THEN [st EXCEPT !.committed = Put(@, tx_id, record.data),
                               !.prepared = @ \ {tx_id}]
               ELSE IF record.status = "ABORTED"
               THEN [st EXCEPT !.aborted = @ \cup {tx_id},
                               !.prepared = @ \ {tx_id}]
               ELSE st
         IN sync_history(Tail(history), next)

\* Participant._handle_recover, second half: _request_history_from_coordinator
\* (the coordinator answers HISTORY_REQUEST also while crashed), then the crash
\* flag is cleared
request_history_from_coordinator(p) ==
    /\ p_pc[p] = "recovering"
    /\ LET st == sync_history(transaction_history,
                    [prepared |-> prepared_transactions[p],
                     committed |-> committed_transactions[p],
                     aborted |-> aborted_transactions[p]])
       IN /\ prepared_transactions' = [prepared_transactions EXCEPT ![p] = st.prepared]
          /\ committed_transactions' = [committed_transactions EXCEPT ![p] = st.committed]
          /\ aborted_transactions' = [aborted_transactions EXCEPT ![p] = st.aborted]
    /\ p_crashed' = [p_crashed EXCEPT ![p] = FALSE]
    /\ p_pc' = [p_pc EXCEPT ![p] = "idle"]
    /\ UNCHANGED <<cvars, net, hvars, pslot, failure_rate, npcrash>>

\* _set_failure_rate: the operator's 'fail'
set_failure_rate(p, r) ==
    /\ p_pc[p] = "idle"
    /\ failure_rate[p] # r
    /\ failure_rate' = [failure_rate EXCEPT ![p] = r]
    /\ UNCHANGED <<cvars, net, hvars, pcoll, pslot, p_crashed, p_pc, npcrash>>

\* ============================================================ coordinator

Terminal(t) == t \in DOMAIN transactions /\ transactions[t].status \in {"COMMITTED", "ABORTED"}

\* History: the circumstance in which an envelope reaches the dispatcher, when
\* the coordinator is crashed ("gated") or the transaction is terminal ("late")
arrival(m) ==
    IF crashed THEN {"gated"}
    ELSE IF Terminal(m.tx) THEN {"late"}
    ELSE {}

\* a VOTE_RESPONSE branch reached without the dispatcher's crash test
handle_vote_response_ungated(m) ==
    /\ m \in net /\ m.type = "VOTE_RESPONSE"
    /\ net' = net \ {m}
    /\ IF m.tx \in DOMAIN transactions
       THEN transactions' = [transactions EXCEPT
                ![m.tx].votes = Put(@, m.pid, m.msg = "VOTE_YES")]
       ELSE UNCHANGED transactions
    /\ seen' = seen \cup arrival(m)
    /\ UNCHANGED <<participants, transaction_history, crashed, ncrash, drv, rec,
                   sent, vote_missing, late, pvars>>

\* _handle_participant_connection, VOTE_RESPONSE branch
handle_vote_response(m) ==
    /\ m \in net /\ m.type = "VOTE_RESPONSE"
    /\ net' = net \ {m}
    /\ IF ~crashed /\ m.tx \in DOMAIN transactions
       THEN transactions' = [transactions EXCEPT
                ![m.tx].votes = Put(@, m.pid, m.msg = "VOTE_YES")]
       ELSE UNCHANGED transactions
    /\ seen' = seen \cup arrival(m)
    /\ UNCHANGED <<participants, transaction_history, crashed, ncrash, drv, rec,
                   sent, vote_missing, late, pvars>>

\* an ACK_RESPONSE branch that also settles the status from the ack it stores
handle_ack_response_settling(m) ==
    /\ m \in net /\ m.type = "ACK_RESPONSE"
    /\ net' = net \ {m}
    /\ IF ~crashed /\ m.tx \in DOMAIN transactions
       THEN transactions' = [transactions EXCEPT
                ![m.tx].acks = Put(@, m.pid, m.msg),
                ![m.tx].status = IF m.msg = "ACK_COMMIT" THEN "COMMITTED" ELSE "ABORTED"]
       ELSE UNCHANGED transactions
    /\ seen' = seen \cup arrival(m)
    /\ UNCHANGED <<participants, transaction_history, crashed, ncrash, drv, rec,
                   sent, vote_missing, late, pvars>>

\* _handle_participant_connection, ACK_RESPONSE branch
handle_ack_response(m) ==
    /\ m \in net /\ m.type = "ACK_RESPONSE"
    /\ net' = net \ {m}
    /\ IF ~crashed /\ m.tx \in DOMAIN transactions
       THEN transactions' = [transactions EXCEPT ![m.tx].acks = Put(@, m.pid, m.msg)]
       ELSE UNCHANGED transactions
    /\ seen' = seen \cup arrival(m)
    /\ UNCHANGED <<participants, transaction_history, crashed, ncrash, drv, rec,
                   sent, vote_missing, late, pvars>>

\* ------------------------------------------------------------ timing
\* A _wait_for_* worker wakes 30 s after its slot was filled; a poll window of
\* the driver lasts 60 s.  A worker started before a poll began has therefore
\* woken before that poll's deadline: the deadline of the vote poll finds no
\* pending_vote for the transaction (only the driver sends PREPARE, before its
\* poll), and the deadline of the ack poll finds no pending_commit or
\* pending_abort for it except those in late, filled by the reconciler while
\* the ack poll was already running.

Holds(slot, t) == slot # NONE /\ slot[1] = t

vote_workers_done(t) ==
    /\ \A p \in ParticipantIds : ~Holds(pending_vote[p], t)
    /\ \A m \in net : ~(m.type = "VOTE_RESPONSE" /\ m.tx = t)

ack_workers_done(t) ==
    \A p \in ParticipantIds :
        /\ Holds(pending_commit[p], t) => <<p, "commit">> \in late
        /\ Holds(pending_abort[p], t) => <<p, "abort">> \in late

SlotOf(kind) == IF kind = "COMMIT" THEN "commit" ELSE "abort"
SlotHolds(p, kind, t) ==
    IF kind = "COMMIT" THEN Holds(pending_commit[p], t) ELSE Holds(pending_abort[p], t)
SlotHoldsNext(p, kind, t) ==
    IF kind = "COMMIT" THEN Holds(pending_commit'[p], t) ELSE Holds(pending_abort'[p], t)

\* a slot the reconciler fills while the driver of t sits in its ack poll
\* starts a worker that may outlast that poll
late_after_forced_send(p, kind, t) ==
    IF SlotHolds(p, kind, t) \/ ~SlotHoldsNext(p, kind, t) THEN late
    ELSE IF drv[t].pc \in {"ackwait", "acklast"} THEN late \cup {<<p, SlotOf(kind)>>}
    ELSE late \ {<<p, SlotOf(kind)>>}

\* the ack poll of t is over: its late marks are of no further use
late_without(t) ==
    late \ ({<<p, "commit">> : p \in {q \in ParticipantIds : Holds(pending_commit[q], t)}}
            \cup {<<p, "abort">> : p \in {q \in ParticipantIds : Holds(pending_abort[q], t)}})

TxRecord(d) ==
    [data |-> d, participants |-> participants, votes |-> EmptyMap,
     acks |-> EmptyMap, status |-> "PREPARING"]

\* a driver thread that has returned or raised: its locals are gone
Ended(pc) ==
    [pc |-> pc, participant_list |-> <<>>, votes |-> EmptyMap, acks |-> EmptyMap,
     idx |-> 0, it_len |-> 0, all_yes |-> FALSE, response |-> "NONE"]

NewDriver ==
    [pc |-> "list", participant_list |-> <<>>, votes |-> EmptyMap, acks |-> EmptyMap,
     idx |-> 0, it_len |-> 0, all_yes |-> FALSE, response |-> "NONE"]

\* uuid4()[:8]: an id no earlier transaction has
fresh_transaction_id == Cardinality(DOMAIN transactions) + 1

\* execute_transaction up to the creation of the transaction record
execute_transaction(d) ==
    /\ ~crashed
    /\ participants # <<>>
    /\ Cardinality(DOMAIN transactions) < MaxTx
    /\ transactions' = Put(transactions, fresh_transaction_id, TxRecord(d))
    /\ drv' = Put(drv, fresh_transaction_id, NewDriver)
    /\ UNCHANGED <<participants, transaction_history, crashed, ncrash, rec, net, hvars, pvars>>

\* execute_transaction with an empty registry: "no available participants"
execute_transaction_no_participants(d) ==
    /\ ~crashed
    /\ participants = <<>>
    /\ UNCHANGED vars

\* an execute_transaction that goes on to create the record whatever the
\* registry holds
start_unguarded(d) ==
    /\ ~crashed
    /\ participants = <<>>
    /\ Cardinality(DOMAIN transactions) < MaxTx
    /\ transactions' = Put(transactions, fresh_transaction_id, TxRecord(d))
    /\ drv' = Put(drv, fresh_transaction_id, NewDriver)
    /\ seen' = seen \cup {"refused"}
    /\ UNCHANGED <<participants, transaction_history, crashed, ncrash, rec, net,
                   sent, vote_missing, late, pvars>>

\* execute_transaction with an empty registry, as above, with the refusal
\* entered in the history of events
start_refused(d) ==
    /\ ~crashed
    /\ participants = <<>>
    /\ seen' = seen \cup {"refused"}
    /\ UNCHANGED <<participants, transactions, transaction_history, crashed, ncrash,
                   drv, rec, net, sent, vote_missing, late, pvars>>

\* participant_list = list(self.participants.keys()), read after the record
\* (and its 'participants' snapshot) was stored
drv_participant_list(t) ==
    /\ t \in DOMAIN drv
    /\ drv[t].pc = "list"
    /\ drv' = [drv EXCEPT ![t].participant_list = participants,
                          ![t].idx = 1, ![t].pc = "prepare"]
    /\ UNCHANGED <<participants, transactions, transaction_history, crashed, ncrash,
                   rec, net, hvars, pvars>>

\* one iteration of the PREPARE loop; _send_message sends nothing while crashed
drv_send_prepare(t) ==
    /\ t \in DOMAIN drv
    /\ drv[t].pc = "prepare"
    /\ drv[t].idx <= Len(drv[t].participant_list)
    /\ LET pid == drv[t].participant_list[drv[t].idx] IN
       IF crashed
       THEN /\ drv' = [drv EXCEPT ![t].idx = @ + 1, ![t].response = "NONE"]
            /\ UNCHANGED pvars
       ELSE \E reply \in Replies :
            /\ handle_request(pid, "PREPARE", t, transactions[t].data, reply)
            /\ drv' = [drv EXCEPT ![t].idx = @ + 1,
                                  ![t].response = reply,
                                  ![t].votes = IF reply = "NONE" THEN @
                                               ELSE Put(@, pid, reply = "VOTE_YES")]
    /\ UNCHANGED <<participants, transactions, transaction_history, crashed, ncrash,
                   rec, net, hvars>>

\* self.transactions[transaction_id]['votes'] = votes, after the PREPARE loop
drv_publish_votes(t) ==
    /\ t \in DOMAIN drv
    /\ drv[t].pc = "prepare"
    /\ drv[t].idx > Len(drv[t].participant_list)
    /\ transactions' = [transactions EXCEPT ![t].votes = drv[t].votes]
    /\ drv' = [drv EXCEPT ![t].pc = "votewait"]
    /\ UNCHANGED <<participants, transaction_history, crashed, ncrash, rec, net, hvars, pvars>>

\* the vote poll sees the crash flag and returns
drv_vote_crashed(t) ==
    /\ t \in DOMAIN drv
    /\ drv[t].pc = "votewait"
    /\ crashed
    /\ drv' = [drv EXCEPT ![t] = Ended("interrupted")]
    /\ UNCHANGED <<participants, transactions, transaction_history, crashed, ncrash,
                   rec, net, hvars, pvars>>

\* for participant_id in participant_list: if not in votes: votes[id] = False
fill_votes(votes, participant_list) ==
    [p \in (DOMAIN votes) \cup Range(participant_list) |->
        IF p \in DOMAIN votes THEN votes[p] ELSE FALSE]

\* all(votes.values())
all_votes_yes(votes) == \A p \in DOMAIN votes : votes[p]

\* from the end of the vote poll to the Phase 2 status: missing votes become
\* NO, then the crash flag is tested, then COMMITTING or ABORTING is set
drv_decide(t) ==
    LET votes == fill_votes(transactions[t].votes, drv[t].participant_list) IN
    /\ vote_missing' =
          IF ncrash = 0
          THEN vote_missing \cup
               {<<t, p>> : p \in Range(transactions[t].participants)
                                   \ DOMAIN transactions[t].votes}
          ELSE vote_missing
    /\ IF crashed
       THEN /\ transactions' = [transactions EXCEPT ![t].votes = votes]
            /\ drv' = [drv EXCEPT ![t] = Ended("interrupted")]
       ELSE /\ transactions' = [transactions EXCEPT
                   ![t].votes = votes,
                   ![t].status = IF all_votes_yes(votes) THEN "COMMITTING"
                                 ELSE "ABORTING"]
            /\ drv' = [drv EXCEPT ![t].pc = "send2",
                                  ![t].all_yes = all_votes_yes(votes),
                                  ![t].acks = EmptyMap, ![t].idx = 1]

\* the vote poll finds len(current_votes) == len(participant_list)
drv_votes_complete(t) ==
    /\ t \in DOMAIN drv
    /\ drv[t].pc = "votewait"
    /\ ~crashed
    /\ Cardinality(DOMAIN transactions[t].votes) = Len(drv[t].participant_list)
    /\ drv_decide(t)
    /\ UNCHANGED <<participants, transaction_history, crashed, ncrash, rec, net, sent, late, seen, pvars>>

\* the 60th test of the vote poll passes (flag clear, votes missing) and the
\* driver enters its last time.sleep(1)
drv_vote_last_sleep(t) ==
    /\ t \in DOMAIN drv
    /\ drv[t].pc = "votewait"
    /\ ~crashed
    /\ Cardinality(DOMAIN transactions[t].votes) # Len(drv[t].participant_list)
    /\ vote_workers_done(t)
    /\ drv' = [drv EXCEPT ![t].pc = "votelast"]
    /\ UNCHANGED <<participants, transactions, transaction_history, crashed, ncrash,
                   rec, net, hvars, pvars>>

\* wait_time reaches max_wait: the while condition ends the vote poll
drv_vote_deadline(t) ==
    /\ t \in DOMAIN drv
    /\ drv[t].pc = "votelast"
    /\ drv_decide(t)
    /\ UNCHANGED <<participants, transaction_history, crashed, ncrash, rec, net, sent, late, seen, pvars>>

\* The iterator of "for participant_id in self.participants.keys()" is made
\* as the loop is entered (idx = 1) and fixes the size of the registry; every
\* later step of it compares the registry's size with that one.
iter_ok(t) == drv[t].idx = 1 \/ Len(participants) = drv[t].it_len
iter_len(t) == IF drv[t].idx = 1 THEN Len(participants) ELSE drv[t].it_len

\* the registry grew during an earlier iteration of the Phase 2 loop: the
\* iterator raises RuntimeError in the driver thread
drv_registry_changed(t) ==
    /\ t \in DOMAIN drv
    /\ drv[t].pc = "send2"
    /\ ~iter_ok(t)
    /\ drv' = [drv EXCEPT ![t] = Ended("raised")]
    /\ UNCHANGED <<participants, transactions, transaction_history, crashed, ncrash,
                   rec, net, hvars, pvars>>

\* the Phase 2 loop tests the crash flag before a send and returns
drv_phase2_crashed(t) ==
    /\ t \in DOMAIN drv
    /\ drv[t].pc = "send2"
    /\ iter_ok(t)
    /\ drv[t].idx <= iter_len(t)
    /\ crashed
    /\ drv' = [drv EXCEPT ![t] = Ended("interrupted")]
    /\ UNCHANGED <<participants, transactions, transaction_history, crashed, ncrash,
                   rec, net, hvars, pvars>>

\* one iteration of the COMMIT / ABORT loop over the registry
drv_send_decision(t) ==
    /\ t \in DOMAIN drv
    /\ drv[t].pc = "send2"
    /\ iter_ok(t)
    /\ drv[t].idx <= iter_len(t)
    /\ ~crashed
    /\ LET pid == participants[drv[t].idx]
           kind == IF drv[t].all_yes THEN "COMMIT" ELSE "ABORT"
           want == IF drv[t].all_yes THEN "ACK_COMMIT" ELSE "ACK_ABORT"
       IN \E reply \in Replies :
            /\ handle_request(pid, kind, t, transactions[t].data, reply)
            /\ drv' = [drv EXCEPT ![t].idx = @ + 1,
                                  ![t].it_len = iter_len(t),
                                  ![t].response = reply,
                                  ![t].acks = IF reply = want THEN Put(@, pid, want)
                                              ELSE @]
            /\ late' = IF SlotHoldsNext(pid, kind, t)
                       THEN late \ {<<pid, SlotOf(kind)>>} ELSE late
    /\ UNCHANGED <<participants, transactions, transaction_history, crashed, ncrash,
                   rec, net, sent, vote_missing, seen>>

\* self.transactions[transaction_id]['acks'] = acks, after the Phase 2 loop
drv_publish_acks(t) ==
    /\ t \in DOMAIN drv
    /\ drv[t].pc = "send2"
    /\ iter_ok(t)
    /\ drv[t].idx > iter_len(t)
    /\ transactions' = [transactions EXCEPT ![t].acks = drv[t].acks]
    /\ drv' = [drv EXCEPT ![t].pc = "ackwait"]
    /\ UNCHANGED <<participants, transaction_history, crashed, ncrash, rec, net, hvars, pvars>>

\* the ack poll sees the crash flag and returns
drv_ack_crashed(t) ==
    /\ t \in DOMAIN drv
    /\ drv[t].pc = "ackwait"
    /\ crashed
    /\ drv' = [drv EXCEPT ![t] = Ended("interrupted")]
    /\ late' = late_without(t)
    /\ UNCHANGED <<participants, transactions, transaction_history, crashed, ncrash,
                   rec, net, sent, vote_missing, seen, pvars>>

\* for participant_id in participant_list: if not in acks: acks[id] = 'TIMEOUT'
fill_acks(acks, participant_list) ==
    [p \in (DOMAIN acks) \cup Range(participant_list) |->
        IF p \in DOMAIN acks THEN acks[p] ELSE "TIMEOUT"]

\* from the end of the ack poll to the terminal status (set before the
\* history append, with no test of the crash flag)
drv_finish(t) ==
    /\ transactions' = [transactions EXCEPT
          ![t].acks = fill_acks(transactions[t].acks, drv[t].participant_list),
          ![t].status = IF drv[t].all_yes THEN "COMMITTED" ELSE "ABORTED"]
    /\ drv' = [drv EXCEPT ![t].pc = "append"]
    /\ late' = late_without(t)

\* the ack poll finds len(current_acks) == len(participant_list)
drv_acks_complete(t) ==
    /\ t \in DOMAIN drv
    /\ drv[t].pc = "ackwait"
    /\ ~crashed
    /\ Cardinality(DOMAIN transactions[t].acks) = Len(drv[t].participant_list)
    /\ drv_finish(t)
    /\ UNCHANGED <<participants, transaction_history, crashed, ncrash, rec, net,
                   sent, vote_missing, seen, pvars>>

\* the 60th test of the ack poll passes (flag clear, acks missing) and the
\* driver enters its last time.sleep(1)
drv_ack_last_sleep(t) ==
    /\ t \in DOMAIN drv
    /\ drv[t].pc = "ackwait"
    /\ ~crashed
    /\ Cardinality(DOMAIN transactions[t].acks) # Len(drv[t].participant_list)
    /\ ack_workers_done(t)
    /\ drv' = [drv EXCEPT ![t].pc = "acklast"]
    /\ UNCHANGED <<participants, transactions, transaction_history, crashed, ncrash,
                   rec, net, hvars, pvars>>

\* wait_time reaches max_wait: the while condition ends the ack poll
drv_ack_deadline(t) ==
    /\ t \in DOMAIN drv
    /\ drv[t].pc = "acklast"
    /\ drv_finish(t)
    /\ UNCHANGED <<participants, transaction_history, crashed, ncrash, rec, net,
                   sent, vote_missing, seen, pvars>>

HistoryRecord(t, status, d) == [transaction_id |-> t, status |-> status, data |-> d]

\* self.transaction_history.append({...}) at the end of execute_transaction
drv_append_history(t) ==
    /\ t \in DOMAIN drv
    /\ drv[t].pc = "append"
    /\ transaction_history' = Append(transaction_history,
          HistoryRecord(t, IF drv[t].all_yes THEN "COMMITTED" ELSE "ABORTED",
                        transactions[t].data))
    /\ drv' = [drv EXCEPT ![t] = Ended("done")]
    /\ UNCHANGED <<participants, transactions, crashed, ncrash, rec, net, hvars, pvars>>

\* Coordinator._handle_crash
\* history: where the protocol stood when the operator typed 'crash'
\* ("mid_phase1": some transaction is PREPARING, every snapshot member has
\* received its PREPARE and none has voted yet; "mid_phase2": some transaction
\* is COMMITTING, one snapshot member has committed it and another is still
\* prepared and has received no COMMIT)
crash_point ==
    (IF \E t \in DOMAIN transactions :
          /\ transactions[t].status = "PREPARING"
          /\ \A i \in DOMAIN transactions[t].participants :
                LET p == transactions[t].participants[i] IN
                pending_vote[p] # NONE /\ pending_vote[p][1] = t
     THEN {"mid_phase1"} ELSE {})
    \cup
    (IF \E t \in DOMAIN transactions :
          /\ transactions[t].status = "COMMITTING"
          /\ \E i, j \in DOMAIN transactions[t].participants :
                LET p1 == transactions[t].participants[i]
                    p2 == transactions[t].participants[j]
                IN /\ t \in DOMAIN committed_transactions[p1]
                   /\ t \in prepared_transactions[p2]
                   /\ ~Holds(pending_commit[p2], t)
     THEN {"mid_phase2"} ELSE {})

handle_crash ==
    /\ ~crashed
    /\ ncrash < MaxCrash
    /\ crashed' = TRUE
    /\ ncrash' = ncrash + 1
    /\ sent' = {}
    /\ vote_missing' = {}
    /\ seen' = seen \cup crash_point
    /\ UNCHANGED <<late, participants, transactions, transaction_history, drv, rec, net, pvars>>

Idle == [pc |-> "idle", todo |-> <<>>, kind |-> "NONE", idx |-> 0, response |-> "NONE"]

IsUnfinished(t) == transactions[t].status \in {"PREPARING", "COMMITTING", "ABORTING"}

\* unfinished_txs of _recover_coordinator, in the order of the transaction table
RECURSIVE unfinished_txs(_)
unfinished_txs(n) ==
    IF n = 0 THEN <<>>
    ELSE IF IsUnfinished(n) THEN Append(unfinished_txs(n - 1), n)
    ELSE unfinished_txs(n - 1)

\* Coordinator._handle_recover -> _recover_coordinator: collect the unfinished
\* transactions; with none, clear the crash flag at once
handle_recover ==
    /\ crashed
    /\ rec.pc = "idle"
    /\ LET todo == unfinished_txs(Cardinality(DOMAIN transactions)) IN
       IF todo = <<>>
       THEN crashed' = FALSE /\ UNCHANGED rec
       ELSE /\ rec' = [Idle EXCEPT !.pc = "decide", !.todo = todo]
            /\ UNCHANGED crashed
    /\ UNCHANGED <<participants, transactions, transaction_history, ncrash, drv, net, hvars, pvars>>

\* _query_participant_state for the snapshot members still registered: the
\* statuses the reconciler tallies (a crashed participant gives no answer)
participant_states(t) ==
    [p \in Range(transactions[t].participants) \cap Range(participants) |->
        IF p_crashed[p] THEN "UNKNOWN" ELSE handle_query_state(p, t)]

count_states(t, status) ==
    Cardinality({p \in DOMAIN participant_states(t) : participant_states(t)[p] = status})

\* the decision logic of _recover_coordinator for one transaction, on the
\* status and votes stored in the transaction record
recover_decision(t) ==
    LET tx_info == transactions[t] IN
    IF tx_info.status = "PREPARING"
    THEN IF /\ Cardinality(DOMAIN tx_info.votes) = Len(tx_info.participants)
            /\ all_votes_yes(tx_info.votes)
         THEN "COMMIT" ELSE "ABORT"
    ELSE IF tx_info.status = "COMMITTING"
    THEN IF count_states(t, "COMMITTED") > 0 THEN "COMMIT"
         ELSE IF count_states(t, "PREPARED") = Len(tx_info.participants) THEN "COMMIT"
         ELSE "COMMIT"
    ELSE IF tx_info.status = "ABORTING" THEN "ABORT"
    ELSE "NONE"

\* advance the reconciler's loop past the transaction at the head of todo
rec_next(r) ==
    IF Len(r.todo) > 1 THEN [Idle EXCEPT !.pc = "decide", !.todo = Tail(r.todo)]
    ELSE [Idle EXCEPT !.pc = "clear"]

\* one pass of the for loop of _recover_coordinator up to the decision
rec_decide ==
    /\ rec.pc = "decide"
    /\ LET kind == recover_decision(Head(rec.todo)) IN
       rec' = IF kind = "NONE" THEN rec_next(rec)
              ELSE [rec EXCEPT !.pc = "send", !.kind = kind, !.idx = 1]
    /\ UNCHANGED <<participants, transactions, transaction_history, crashed, ncrash,
                   drv, net, hvars, pvars>>

\* one iteration of the send loop of _complete_commit / _complete_abort:
\* forced send to a snapshot member that is still registered
rec_send ==
    /\ rec.pc = "send"
    /\ LET t == Head(rec.todo)
           snapshot == transactions[t].participants
       IN /\ rec.idx <= Len(snapshot)
          /\ IF snapshot[rec.idx] \notin Range(participants)
             THEN /\ rec' = [rec EXCEPT !.idx = @ + 1]
                  /\ UNCHANGED <<pvars, late>>
             ELSE \E reply \in Replies :
                     /\ handle_request(snapshot[rec.idx], rec.kind, t,
                                       transactions[t].data, reply)
                     /\ late' = late_after_forced_send(snapshot[rec.idx], rec.kind, t)
                     /\ rec' = [rec EXCEPT !.idx = @ + 1, !.response = reply]
    /\ UNCHANGED <<participants, transactions, transaction_history, crashed, ncrash,
                   drv, net, sent, vote_missing, seen>>

\* the locked tail of _complete_commit / _complete_abort: terminal status and
\* history record
rec_complete ==
    /\ rec.pc = "send"
    /\ LET t == Head(rec.todo)
           status == IF rec.kind = "COMMIT" THEN "COMMITTED" ELSE "ABORTED"
       IN /\ rec.idx > Len(transactions[t].participants)
          /\ transactions' = [transactions EXCEPT ![t].status = status]
          /\ transaction_history' = Append(transaction_history,
                HistoryRecord(t, status, transactions[t].data))
    /\ rec' = rec_next(rec)
    /\ UNCHANGED <<participants, crashed, ncrash, drv, net, hvars, pvars>>

\* self.crashed = False at the end of _recover_coordinator
rec_clear ==
    /\ rec.pc = "clear"
    /\ crashed' = FALSE
    /\ rec' = Idle
    /\ UNCHANGED <<participants, transactions, transaction_history, ncrash, drv, net, hvars, pvars>>

\* ============================================================ specification

Driver(t) ==
    \/ drv_participant_list(t)
    \/ drv_send_prepare(t)
    \/ drv_publish_votes(t)
    \/ drv_vote_crashed(t)
    \/ drv_votes_complete(t)
    \/ drv_vote_last_sleep(t)
    \/ drv_vote_deadline(t)
    \/ drv_registry_changed(t)
    \/ drv_phase2_crashed(t)
    \/ drv_send_decision(t)
    \/ drv_publish_acks(t)
    \/ drv_ack_crashed(t)
    \/ drv_acks_complete(t)
    \/ drv_ack_last_sleep(t)
    \/ drv_ack_deadline(t)
    \/ drv_append_history(t)

Reconciler == rec_decide \/ rec_send \/ rec_complete \/ rec_clear

ParticipantStep(p) ==
    \/ Start(p)
    \/ \E yes \in BOOLEAN : handle_vote_command(p, yes)
    \/ handle_ack_commit_command(p)
    \/ handle_ack_abort_command(p)
    \/ p_handle_crash(p)
    \/ p_handle_recover(p)
    \/ request_history_from_coordinator(p)
    \/ \E t \in 1..MaxTx : \/ wait_for_vote(p, t)
                           \/ wait_for_ack_commit(p, t)
                           \/ wait_for_ack_abort(p, t)

Next ==
    \/ \E d \in Payloads : execute_transaction(d)
    \/ \E d \in Payloads : execute_transaction_no_participants(d)
    \/ \E t \in 1..MaxTx : Driver(t)
    \/ handle_crash
    \/ handle_recover
    \/ Reconciler
    \/ \E m \in Envelopes : handle_vote_response(m) \/ handle_ack_response(m)
    \/ \E p \in ParticipantIds : ParticipantStep(p)

\* the protocol under coordinator and participant crash/recover commands,
\* every failure rate left at 0
Spec == Init /\ [][Next]_vars

\* the protocol under the operator's 'fail' command, with no crash command
NextInject ==
    \/ \E d \in Payloads : execute_transaction(d)
    \/ \E t \in 1..MaxTx : Driver(t)
    \/ \E m \in Envelopes : handle_vote_response(m) \/ handle_ack_response(m)
    \/ \E p \in ParticipantIds :
          \/ Start(p)
          \/ \E r \in FailureRates : set_failure_rate(p, r)
          \/ \E yes \in BOOLEAN : handle_vote_command(p, yes)
          \/ handle_ack_commit_command(p)
          \/ handle_ack_abort_command(p)
          \/ \E t \in 1..MaxTx : \/ wait_for_vote(p, t)
                                 \/ wait_for_ack_commit(p, t)
                                 \/ wait_for_ack_abort(p, t)

SpecInject == Init /\ [][NextInject]_vars

\* the steps of a driver thread that never finds the crash flag set and whose
\* Phase 2 loop runs over an unchanged registry
DriverRunning(t) ==
    \/ drv_participant_list(t)
    \/ drv_send_prepare(t)
    \/ drv_publish_votes(t)
    \/ drv_votes_complete(t)
    \/ drv_vote_last_sleep(t)
    \/ drv_vote_deadline(t)
    \/ drv_send_decision(t)
    \/ drv_publish_acks(t)
    \/ drv_acks_complete(t)
    \/ drv_ack_last_sleep(t)
    \/ drv_ack_deadline(t)
    \/ drv_append_history(t)

\* the operator commands of a running participant
ParticipantCommand(p) ==
    \/ \E yes \in BOOLEAN : handle_vote_command(p, yes)
    \/ handle_ack_commit_command(p)
    \/ handle_ack_abort_command(p)

\* the timeout workers of a participant for transaction t
ParticipantWorker(p, t) ==
    \/ wait_for_vote(p, t)
    \/ wait_for_ack_commit(p, t)
    \/ wait_for_ack_abort(p, t)

\* the protocol with no crash and no 'fail' command, the operator's 'start'
\* on an empty registry kept track of
NextStart ==
    \/ \E d \in Payloads : start_refused(d)
    \/ \E d \in Payloads : execute_transaction(d)
    \/ \E t \in 1..MaxTx : DriverRunning(t) \/ drv_registry_changed(t)
    \/ \E m \in Envelopes : handle_vote_response(m) \/ handle_ack_response(m)
    \/ \E p \in ParticipantIds :
          \/ Start(p)
          \/ ParticipantCommand(p)
          \/ \E t \in 1..MaxTx : ParticipantWorker(p, t)

SpecStart == Init /\ [][NextStart]_vars

\* execute_transaction when the operator starts transactions one after the
\* other without waiting: each 'start' runs in a thread of its own
execute_transaction_concurrent(d) ==
    /\ ~crashed
    /\ participants # <<>>
    /\ Cardinality(DOMAIN transactions) < MaxConcurrent
    /\ transactions' = Put(transactions, fresh_transaction_id, TxRecord(d))
    /\ drv' = Put(drv, fresh_transaction_id, NewDriver)
    /\ UNCHANGED <<participants, transaction_history, crashed, ncrash, rec, net, hvars, pvars>>

\* concurrent transactions against one participant, with no crash and no
\* 'fail' command
NextConcurrent ==
    \/ \E d \in Payloads : execute_transaction_concurrent(d)
    \/ \E t \in 1..MaxConcurrent : DriverRunning(t)
    \/ \E m \in net : handle_vote_response(m) \/ handle_ack_response(m)
    \/ Start(FirstParticipant)
    \/ ParticipantCommand(FirstParticipant)
    \/ \E t \in 1..MaxConcurrent : ParticipantWorker(FirstParticipant, t)

\* threads run: a driver thread, a connection handler and a timeout worker
\* that can take a step eventually takes it; the operator's commands are
\* under no such obligation
Fairness ==
    /\ \A t \in 1..MaxConcurrent :
          /\ WF_vars(DriverRunning(t))
          /\ WF_vars(ParticipantWorker(FirstParticipant, t))
    /\ WF_vars(\E m \in net : handle_vote_response(m) \/ handle_ack_response(m))

SpecConcurrent == Init /\ [][NextConcurrent]_vars /\ Fairness

\* the timeout workers of a participant, their use of the lock kept track of
ParticipantWorkerLocked(p, t) ==
    \/ wait_for_vote_locked(p, t)
    \/ wait_for_ack_commit_locked(p, t)
    \/ wait_for_ack_abort_locked(p, t)

\* one transaction against the participants, with no crash and no 'fail'
\* command, the lock held at each send kept track of
NextLock ==
    \/ \E d \in Payloads : execute_transaction(d)
    \/ \E t \in 1..MaxTx : DriverRunning(t) \/ drv_registry_changed(t)
    \/ \E m \in Envelopes : handle_vote_response(m) \/ handle_ack_response(m)
    \/ \E p \in ParticipantIds :
          \/ Start(p)
          \/ ParticipantCommand(p)
          \/ \E t \in 1..MaxTx : ParticipantWorkerLocked(p, t)

SpecLock == Init /\ [][NextLock]_vars

\* ============================================================ claims

TxIds == DOMAIN transactions
InCommitted(p, t) == t \in DOMAIN committed_transactions[p]
InAborted(p, t) == t \in aborted_transactions[p]
InPrepared(p, t) == t \in prepared_transactions[p]
HistoryOf(t, status) ==
    {i \in DOMAIN transaction_history :
        /\ transaction_history[i].transaction_id = t
        /\ transaction_history[i].status = status}
RecordsOf(t) == HistoryOf(t, "COMMITTED") \cup HistoryOf(t, "ABORTED")

\* C1: atomicity across participants: no transaction id is in one
\* participant's committed collection and in another's aborted collection.
C1_Atomicity ==
    \A t \in TxIds : \A p, q \in ParticipantIds :
        ~(p # q /\ InCommitted(p, t) /\ InAborted(q, t))

\* C2: the coordinator's history binds the participants: a COMMITTED record
\* for an id excludes the id from every aborted collection, an ABORTED record
\* excludes it from every committed collection.
C2_HistoryBindsParticipants ==
    \A t \in TxIds : \A p \in ParticipantIds :
        /\ HistoryOf(t, "COMMITTED") # {} => ~InAborted(p, t)
        /\ HistoryOf(t, "ABORTED") # {} => ~InCommitted(p, t)

\* C3: at every participant an id is in at most one of prepared, committed,
\* aborted.
C3_CollectionsDisjoint ==
    \A p \in ParticipantIds : \A t \in 1..MaxTx :
        /\ ~(InPrepared(p, t) /\ InCommitted(p, t))
        /\ ~(InPrepared(p, t) /\ InAborted(p, t))
        /\ ~(InCommitted(p, t) /\ InAborted(p, t))

\* C4: the history holds at most one record per transaction id.
C4_OneRecordPerTransaction ==
    \A t \in TxIds : Cardinality(RecordsOf(t)) <= 1

\* C5: decision monotonicity: once the history holds a record for an id, the
\* status of that transaction never changes again and no record with another
\* status is added for it.
C5_DecisionMonotone ==
    [][\A t \in TxIds :
         RecordsOf(t) # {} =>
            /\ transactions'[t].status = transactions[t].status
            /\ \A i \in DOMAIN transaction_history' :
                  transaction_history'[i].transaction_id = t =>
                     \E j \in DOMAIN transaction_history :
                        /\ transaction_history[j].transaction_id = t
                        /\ transaction_history[j].status
                              = transaction_history'[i].status]_vars

Snapshot(t) == Range(transactions[t].participants)
DriverEnded(t) == t \in DOMAIN drv /\ drv[t].pc \in {"done", "raised", "interrupted"}
RecordedYes(t, p) == p \in DOMAIN transactions[t].votes /\ transactions[t].votes[p]
Voted(p, t, yes) == VoteEnvelope(p, t, yes) \in sent
Acked(p, t) == \E ack \in {"ACK_COMMIT", "ACK_ABORT"} : AckEnvelope(p, t, ack) \in sent

\* the step in which the driver of t leaves vote collection for Phase 2
LeavesVoteCollection(t) ==
    /\ t \in DOMAIN drv
    /\ drv[t].pc \in {"votewait", "votelast"}
    /\ drv'[t].pc = "send2"

\* C6: the driver that finishes vote collection without seeing the crash flag
\* sets COMMITTING if and only if every member of the snapshot has a recorded
\* YES vote, and ABORTING in every other case.
C6_DecisionRule ==
    [][\A t \in 1..MaxTx :
         LeavesVoteCollection(t) =>
            /\ transactions'[t].status \in {"COMMITTING", "ABORTING"}
            /\ transactions'[t].status = "COMMITTING"
                  <=> \A p \in Snapshot(t) : RecordedYes(t, p)]_vars

\* C7: a snapshot member without a recorded vote at the end of the vote poll
\* of a coordinator that does not crash is recorded as NO; the transaction
\* is never COMMITTING or COMMITTED, no participant has the id in committed,
\* and the driver does not end before the transaction is ABORTED.
C7_MissingVoteAborts ==
    \A e \in vote_missing :
        LET t == e[1] IN
        /\ transactions[t].status \in {"ABORTING", "ABORTED"}
        /\ \A p \in ParticipantIds : ~InCommitted(p, t)
        /\ transactions[t].status = "ABORTING" =>
               e[2] \in DOMAIN transactions[t].votes /\ ~transactions[t].votes[e[2]]
        /\ DriverEnded(t) => transactions[t].status = "ABORTED"

\* C8: with no crash of any node, once a snapshot member has voted NO no
\* participant has the id in committed, a member that has confirmed the ABORT
\* has the id in aborted, a member that voted YES has it in prepared until its
\* ack, and the driver ends with exactly one ABORTED record in the history.
C8_NoVoteAborts ==
    \A t \in TxIds :
        (CrashFree /\ \E q \in Snapshot(t) : Voted(q, t, FALSE)) =>
            /\ \A p \in ParticipantIds : ~InCommitted(p, t)
            /\ HistoryOf(t, "COMMITTED") = {}
            /\ \A p \in Snapshot(t) :
                  /\ AckEnvelope(p, t, "ACK_ABORT") \in sent => InAborted(p, t)
                  /\ Voted(p, t, TRUE) /\ ~Acked(p, t) => InPrepared(p, t)
            /\ DriverEnded(t) => Cardinality(HistoryOf(t, "ABORTED")) = 1

\* C9: with no crash and no injected failure, once every snapshot member has
\* voted YES and acknowledged the COMMIT, every member has the id in committed
\* with the payload and in no other collection, and the driver ends with the
\* status COMMITTED and exactly one COMMITTED record carrying the payload.
C9_HappyPath ==
    \A t \in TxIds :
        (/\ CrashFree
         /\ \A p \in ParticipantIds : failure_rate[p] = 0
         /\ \A p \in Snapshot(t) :
               Voted(p, t, TRUE) /\ AckEnvelope(p, t, "ACK_COMMIT") \in sent) =>
            /\ \A p \in Snapshot(t) :
                  /\ InCommitted(p, t)
                  /\ committed_transactions[p][t] = transactions[t].data
                  /\ ~InPrepared(p, t) /\ ~InAborted(p, t)
            /\ DriverEnded(t) =>
                  /\ transactions[t].status = "COMMITTED"
                  /\ Cardinality(RecordsOf(t)) = 1
                  /\ \A i \in HistoryOf(t, "COMMITTED") :
                        transaction_history[i].data = transactions[t].data

\* C10: a driver that runs without the coordinator's crash flag ever being
\* set ends with the transaction COMMITTED or ABORTED, one history record
\* appended, and TIMEOUT recorded for each member that gave no ack.
C10_DriverTerminates ==
    \A t \in TxIds :
        (ncrash = 0 /\ DriverEnded(t)) =>
            /\ transactions[t].status \in {"COMMITTED", "ABORTED"}
            /\ Cardinality(RecordsOf(t)) = 1
            /\ Snapshot(t) \subseteq DOMAIN transactions[t].acks

\* the step in which the driver of t sends its Phase 2 message to p
DriverSendsDecision(t, p) ==
    /\ t \in DOMAIN drv
    /\ drv[t].pc = "send2"
    /\ drv'[t].pc = "send2"
    /\ drv'[t].idx = drv[t].idx + 1
    /\ participants[drv[t].idx] = p

\* C11: in Phase 2 the driver sends COMMIT or ABORT only to members of the
\* snapshot stored when the transaction started; a participant registered
\* later receives neither from the driver.
C11_DecisionToSnapshotOnly ==
    [][\A t \in 1..MaxTx : \A p \in ParticipantIds :
         DriverSendsDecision(t, p) => p \in Snapshot(t)]_vars

\* the step in which the coordinator's dispatcher handles envelope m
HandlesEnvelope(m) == m \in net /\ net' = net \ {m}

\* C12: a VOTE_RESPONSE or ACK_RESPONSE that arrives for a transaction whose
\* status is COMMITTED or ABORTED leaves its votes map and acks map unchanged.
C12_LateArrivalsDiscarded ==
    [][\A m \in Envelopes :
         (HandlesEnvelope(m) /\ Terminal(m.tx)) =>
            /\ transactions'[m.tx].votes = transactions[m.tx].votes
            /\ transactions'[m.tx].acks = transactions[m.tx].acks]_vars

\* C13: handling a VOTE_RESPONSE or ACK_RESPONSE that arrives after the
\* transaction is terminal leaves the history and the status unchanged.
C13_LateArrivalsKeepHistory ==
    [][\A m \in Envelopes :
         (HandlesEnvelope(m) /\ Terminal(m.tx)) =>
            /\ transaction_history' = transaction_history
            /\ transactions'[m.tx].status = transactions[m.tx].status]_vars

\* C13: a running coordinator has handled an envelope of a terminal transaction
C13_Witness == "late" \in seen

\* C14: the history append happens before the status becomes terminal: a
\* transaction whose status is COMMITTED or ABORTED has a history record with
\* that status.
C14_HistoryBeforeTerminal ==
    \A t \in TxIds :
        transactions[t].status \in {"COMMITTED", "ABORTED"} =>
            HistoryOf(t, transactions[t].status) # {}

\* C15: an id enters a participant's committed collection only from its
\* prepared collection, and enters aborted only from prepared or from none of
\* the three collections.
C15_TransitionSources ==
    [][\A p \in ParticipantIds : \A t \in 1..MaxTx :
         /\ (~InCommitted(p, t) /\ t \in DOMAIN committed_transactions'[p]) =>
               InPrepared(p, t)
         /\ (~InAborted(p, t) /\ t \in aborted_transactions'[p]) =>
               (InPrepared(p, t) \/ ~InCommitted(p, t))]_vars

\* the step in which the reconciler sends its COMMIT or ABORT for t to p
ReconcilerSendsDecision(t, p) ==
    /\ rec.pc = "send" /\ rec'.pc = "send"
    /\ rec'.idx = rec.idx + 1
    /\ Head(rec.todo) = t
    /\ transactions[t].participants[rec.idx] = p
    /\ p \in Range(participants)

\* the step in which participant p receives a COMMIT for t, and the reply
\* the sender reads from the connection
CommitDelivered(t, p) ==
    \/ DriverSendsDecision(t, p) /\ ~crashed /\ drv[t].all_yes
    \/ ReconcilerSendsDecision(t, p) /\ rec.kind = "COMMIT"
CommitResponse(t) ==
    IF rec.pc = "send" /\ rec'.idx = rec.idx + 1 THEN rec'.response ELSE drv'[t].response

\* C16: a running participant with failure rate 0 that receives COMMIT for an
\* id not in prepared replies ACK_ABORT, leaves pending_commit as it is and
\* leaves prepared, committed and aborted unchanged.
C16_CommitUnpreparedRejected ==
    [][\A t \in 1..MaxTx : \A p \in ParticipantIds :
         (/\ CommitDelivered(t, p)
          /\ ~p_crashed[p] /\ failure_rate[p] = 0
          /\ ~InPrepared(p, t)) =>
            /\ CommitResponse(t) = "ACK_ABORT"
            /\ pending_commit'[p] = pending_commit[p]
            /\ prepared_transactions'[p] = prepared_transactions[p]
            /\ committed_transactions'[p] = committed_transactions[p]
            /\ aborted_transactions'[p] = aborted_transactions[p]]_vars

\* C16: a sender of COMMIT has just read ACK_ABORT from the connection
C16_Witness ==
    \/ \E t \in TxIds : /\ t \in DOMAIN drv
                        /\ drv[t].pc = "send2" /\ drv[t].all_yes
                        /\ drv[t].response = "ACK_ABORT"
    \/ rec.pc = "send" /\ rec.kind = "COMMIT" /\ rec.response = "ACK_ABORT"

\* the step in which the driver of t sends PREPARE to p
PrepareDelivered(t, p) ==
    /\ t \in DOMAIN drv
    /\ drv[t].pc = "prepare" /\ drv'[t].pc = "prepare"
    /\ drv'[t].idx = drv[t].idx + 1
    /\ ~crashed
    /\ drv[t].participant_list[drv[t].idx] = p

\* the step in which p receives PREPARE, COMMIT or ABORT for t
RequestDelivered(t, p) ==
    \/ PrepareDelivered(t, p)
    \/ DriverSendsDecision(t, p) /\ ~crashed
    \/ ReconcilerSendsDecision(t, p)

\* the steps in which p sends REGISTER, and HISTORY_REQUEST, to the coordinator
Registers(p) == p_pc[p] \in {"down", "idle"} /\ p_pc'[p] \in {"idle", "recovering"}
                   /\ p_pc'[p] # p_pc[p]
RequestsHistory(p) == p_pc[p] = "recovering" /\ p_pc'[p] = "idle"

\* C17: while the coordinator's crash flag is set a VOTE_RESPONSE or
\* ACK_RESPONSE changes no vote, ack, status or history, REGISTER still enters
\* the registry and HISTORY_REQUEST is answered with the full history; while a
\* participant's crash flag is set an inbound PREPARE, COMMIT, ABORT or
\* QUERY_STATE gets no reply and changes no collection and no pending slot.
C17_CrashGate ==
    [][/\ \A m \in Envelopes :
            (HandlesEnvelope(m) /\ crashed) =>
               /\ transactions' = transactions
               /\ transaction_history' = transaction_history
       /\ \A p \in ParticipantIds :
            /\ (Registers(p) /\ crashed) => p \in Range(participants')
            /\ (RequestsHistory(p) /\ crashed) =>
                  \A i \in DOMAIN transaction_history :
                     LET r == transaction_history[i] IN
                     /\ r.status = "COMMITTED" =>
                           /\ r.transaction_id \in DOMAIN committed_transactions'[p]
                           /\ committed_transactions'[p][r.transaction_id] = r.data
                     /\ r.status = "ABORTED" =>
                           r.transaction_id \in aborted_transactions'[p]
            /\ \A t \in 1..MaxTx :
                 /\ (RequestDelivered(t, p) /\ p_crashed[p]) =>
                       /\ prepared_transactions'[p] = prepared_transactions[p]
                       /\ committed_transactions'[p] = committed_transactions[p]
                       /\ aborted_transactions'[p] = aborted_transactions[p]
                       /\ pending_vote'[p] = pending_vote[p]
                       /\ pending_commit'[p] = pending_commit[p]
                       /\ pending_abort'[p] = pending_abort[p]
                       /\ IF ReconcilerSendsDecision(t, p)
                          THEN rec'.response = "NONE" ELSE drv'[t].response = "NONE"
                 /\ (t \in TxIds /\ p \in DOMAIN participant_states(t) /\ p_crashed[p]) =>
                       participant_states(t)[p] = "UNKNOWN"]_vars

\* C17: an envelope has reached the crashed coordinator, and the reconciler
\* has just sent its ABORT to a crashed member, which kept no trace of it
C17_Witness ==
    /\ "gated" \in seen
    /\ rec.pc = "send" /\ rec.kind = "ABORT" /\ rec.idx > 1
    /\ LET t == Head(rec.todo)
           p == transactions[t].participants[1]
       IN /\ p \in Range(participants)
          /\ p_crashed[p]
          /\ pending_abort[p] = NONE
          /\ ~InAborted(p, t)

\* the step in which the reconciler decides on t
ReconcilerDecides(t) ==
    /\ rec.pc = "decide" /\ Head(rec.todo) = t
    /\ rec'.pc = "send"

\* every snapshot member of t has voted YES and its vote has been delivered
AllVotedYes(t) ==
    \A p \in Snapshot(t) :
       /\ InPrepared(p, t)
       /\ \A yes \in BOOLEAN : VoteEnvelope(p, t, yes) \notin net

\* C18 (scenario S4): the coordinator was crashed after PREPARE had reached
\* every member and before any vote; every member voted YES while it was
\* crashed; the reconciler then takes the COMMIT branch (_complete_commit:
\* COMMIT to the members, status COMMITTED, COMMITTED history record).
C18_CrashMidPhase1Commits ==
    [][\A t \in TxIds :
         ("mid_phase1" \in seen /\ AllVotedYes(t) /\ ReconcilerDecides(t)) =>
            rec'.kind = "COMMIT"]_vars

\* the step in which the operator's 'recover' starts the reconciler
RecoverTyped == crashed /\ rec.pc = "idle" /\ (rec'.pc # "idle" \/ ~crashed')

\* the reconciliation that followed the crash is over
Reconciled == ncrash > 0 /\ ~crashed /\ rec.pc = "idle"

\* C19 (scenario S5): the coordinator was crashed with a transaction
\* COMMITTING, one member committed and another still prepared with no COMMIT
\* received. On 'recover' the reconciler takes the transaction up and decides
\* COMMIT; a prepared member accepts that COMMIT into pending_commit; a
\* committed member stays committed; and once the reconciliation is over the
\* status is COMMITTED and the history holds exactly one COMMITTED record.
C19_CrashMidPhase2Commits ==
    [][\A t \in TxIds :
         "mid_phase2" \in seen =>
            /\ RecoverTyped => rec'.pc = "decide" /\ t \in Range(rec'.todo)
            /\ ReconcilerDecides(t) => rec'.kind = "COMMIT"
            /\ \A p \in Snapshot(t) :
                 /\ (ReconcilerSendsDecision(t, p) /\ InPrepared(p, t)
                       /\ ~p_crashed[p] /\ failure_rate[p] = 0) =>
                          Holds(pending_commit'[p], t)
                 /\ InCommitted(p, t) => t \in DOMAIN committed_transactions'[p]
            /\ Reconciled =>
                 /\ transactions[t].status = "COMMITTED"
                 /\ Cardinality(HistoryOf(t, "COMMITTED")) = 1
                 /\ HistoryOf(t, "ABORTED") = {}]_vars

\* the decision table of the reconciler, on the stored status and the votes
\* recorded for the snapshot members
DecisionTable(t) ==
    LET status == transactions[t].status IN
    IF status = "PREPARING"
    THEN IF \A p \in Snapshot(t) : RecordedYes(t, p) THEN "COMMIT" ELSE "ABORT"
    ELSE IF status = "COMMITTING" THEN "COMMIT"
    ELSE IF status = "ABORTING" THEN "ABORT"
    ELSE "NONE"

\* the steps in which the reconciler passes its decision point for t, and
\* completes t
ReconcilerAt(t) == rec.pc = "decide" /\ Head(rec.todo) = t /\ rec' # rec
ReconcilerCompletes(t) ==
    /\ rec.pc = "send" /\ Head(rec.todo) = t
    /\ rec'.pc # "send" \/ Head(rec'.todo) # t

\* C20: the reconciler takes up exactly the transactions whose stored status
\* is PREPARING, COMMITTING or ABORTING; what it sends is given by the decision
\* table (PREPARING with a YES of every snapshot member: COMMIT; PREPARING
\* otherwise: ABORT; COMMITTING: COMMIT; ABORTING: ABORT), independently of
\* what the participants report; it completes with COMMITTED after COMMIT and
\* ABORTED after ABORT; a terminal transaction is not touched.
C20_ReconcilerDecisionTable ==
    [][\A t \in TxIds :
         /\ RecoverTyped =>
               (t \in Range(rec'.todo) <=> IsUnfinished(t))
         /\ ReconcilerAt(t) =>
               IF IsUnfinished(t)
               THEN rec'.pc = "send" /\ rec'.kind = DecisionTable(t)
               ELSE /\ rec'.pc # "send" \/ Head(rec'.todo) # t
                    /\ UNCHANGED <<transactions, transaction_history, pvars>>
         /\ ReconcilerCompletes(t) =>
               transactions'[t].status =
                  IF rec.kind = "COMMIT" THEN "COMMITTED" ELSE "ABORTED"]_vars

\* the stored status of t is on the abort side, or on the commit side
AbortSide(t) == transactions[t].status \in {"ABORTING", "ABORTED"}
CommitSide(t) == transactions[t].status \in {"COMMITTING", "COMMITTED"}

\* C21: an abort decision never flips to commit: from a status ABORTING or
\* ABORTED the status never becomes COMMITTING or COMMITTED, and neither the
\* driver nor the reconciler sends a COMMIT for that transaction.
C21_AbortNeverFlips ==
    [][\A t \in TxIds :
         AbortSide(t) =>
            /\ transactions'[t].status \notin {"COMMITTING", "COMMITTED"}
            /\ \A p \in ParticipantIds : ~CommitDelivered(t, p)]_vars

\* the collections of p already agree with every record of the history
Agrees(p) ==
    \A i \in DOMAIN transaction_history :
       LET r == transaction_history[i] IN
       /\ ~InPrepared(p, r.transaction_id)
       /\ r.status = "COMMITTED" =>
             /\ InCommitted(p, r.transaction_id)
             /\ committed_transactions[p][r.transaction_id] = r.data
       /\ r.status = "ABORTED" => InAborted(p, r.transaction_id)

\* the steps of the participant's 'crash' and 'recover' commands
ParticipantCrashTyped(p) == ~p_crashed[p] /\ p_crashed'[p]
ParticipantRecoverTyped(p) == p_pc[p] = "idle" /\ p_pc'[p] = "recovering"

CollectionsUnchanged(p) ==
    /\ prepared_transactions'[p] = prepared_transactions[p]
    /\ committed_transactions'[p] = committed_transactions[p]
    /\ aborted_transactions'[p] = aborted_transactions[p]

\* C22: recovery is a no-op on a consistent cluster: the coordinator's
\* 'recover' with no PREPARING, COMMITTING or ABORTING transaction starts no
\* reconciliation, adds no history record, changes no status and sends
\* nothing; a participant's 'crash' and 'recover' change none of its
\* collections, and neither does the resynchronisation when the collections
\* already agree with every history record.
C22_RecoveryIdempotent ==
    [][/\ (RecoverTyped /\ \A t \in TxIds : ~IsUnfinished(t)) =>
             /\ rec' = rec /\ ~crashed'
             /\ UNCHANGED <<transactions, transaction_history, net, pvars>>
       /\ \A p \in ParticipantIds :
             /\ (ParticipantCrashTyped(p) \/ ParticipantRecoverTyped(p)) =>
                   CollectionsUnchanged(p)
             /\ (RequestsHistory(p) /\ Agrees(p)) => CollectionsUnchanged(p)]_vars

\* C22: the coordinator is crashed with every transaction terminal, and a
\* participant that holds the recorded outcome is about to resynchronise
C22_Witness ==
    /\ crashed /\ rec.pc = "idle"
    /\ TxIds # {} /\ \A t \in TxIds : Terminal(t)
    /\ transaction_history # <<>>
    /\ \E p \in ParticipantIds :
          /\ p_pc[p] = "recovering" /\ Agrees(p)
          /\ \E t \in TxIds : InCommitted(p, t) \/ InAborted(p, t)

\* C23: while the participant registry is empty no step, the operator's
\* 'start' included, creates a transaction record or a driver, appends to the
\* history, sends a message or fills a participant's slot.
C23_NoParticipantsNoTransaction ==
    [][participants = <<>> =>
          /\ transactions' = transactions
          /\ transaction_history' = transaction_history
          /\ drv' = drv
          /\ net' = net
          /\ UNCHANGED <<pending_vote, pending_commit, pending_abort>>]_vars

\* C23: 'start' has just been refused on an empty registry
C23_Witness ==
    /\ "refused" \in seen
    /\ participants = <<>>
    /\ transactions = EmptyMap

\* C24: the participant's 'recover' registers it again and leaves its crash
\* flag set; the resynchronisation that follows runs on a registered, still
\* crashed participant, and when it is over every COMMITTED record of the
\* fetched history has its id in committed with the record's payload, every
\* ABORTED record has its id in aborted, no recorded id is left in prepared,
\* and the crash flag is cleared.
C24_ResyncPostcondition ==
    [][\A p \in ParticipantIds :
         /\ ParticipantRecoverTyped(p) =>
               p \in Range(participants') /\ p_crashed'[p]
         /\ RequestsHistory(p) =>
               /\ p \in Range(participants) /\ p_crashed[p] /\ ~p_crashed'[p]
               /\ \A i \in DOMAIN transaction_history :
                     LET r == transaction_history[i] IN
                     /\ r.transaction_id \notin prepared_transactions'[p]
                     /\ r.status = "COMMITTED" =>
                           /\ r.transaction_id \in DOMAIN committed_transactions'[p]
                           /\ committed_transactions'[p][r.transaction_id] = r.data
                     /\ r.status = "ABORTED" =>
                           r.transaction_id \in aborted_transactions'[p]]_vars

\* C24: a participant has registered again and is about to resynchronise
\* against a history that records the outcome of a transaction it still holds
\* in prepared
C24_Witness ==
    \E p \in ParticipantIds :
       /\ p_pc[p] = "recovering" /\ p_crashed[p]
       /\ p \in Range(participants)
       /\ \E i \in DOMAIN transaction_history :
             InPrepared(p, transaction_history[i].transaction_id)

\* the pending slots of p are all empty
SlotsEmpty(p) ==
    pending_vote[p] = NONE /\ pending_commit[p] = NONE /\ pending_abort[p] = NONE

\* C25: a participant's 'crash' discards its pending slots: right after the
\* command pending_vote, pending_commit and pending_abort are empty, and they
\* are empty for as long as the participant is crashed, up to the end of its
\* 'recover'.
C25_CrashDiscardsPending ==
    \A p \in ParticipantIds : p_crashed[p] => SlotsEmpty(p)

\* the step in which the coordinator's recovery completes (crash flag cleared)
RecoverCompletes == crashed /\ ~crashed'

\* C26: a transaction whose driver was interrupted by the crash keeps its
\* non-terminal status until the operator's 'recover'; when the recovery
\* completes every transaction of the table is COMMITTED or ABORTED; and a
\* transaction that is terminal after a completed recovery stays terminal.
C26_RecoveryLeavesAllTerminal ==
    [][\A t \in TxIds :
         /\ (crashed /\ rec.pc = "idle" /\ ~RecoverTyped
               /\ t \in DOMAIN drv /\ drv[t].pc = "interrupted") =>
                  transactions'[t].status = transactions[t].status
         /\ RecoverCompletes =>
               transactions'[t].status \in {"COMMITTED", "ABORTED"}
         /\ (Reconciled /\ Terminal(t)) =>
               transactions'[t].status \in {"COMMITTED", "ABORTED"}]_vars

\* the steps in which the driver of t leaves its vote poll, and its ack poll,
\* on the completeness test, before the deadline
VotePollCompletes(t) ==
    t \in DOMAIN drv /\ drv[t].pc = "votewait" /\ drv'[t].pc = "send2"
AckPollCompletes(t) ==
    t \in DOMAIN drv /\ drv[t].pc = "ackwait" /\ drv'[t].pc = "append"

\* C27: the driver leaves its vote poll before the deadline only when every
\* snapshot member has a recorded vote, and its ack poll only when every
\* snapshot member has a recorded ack; an entry under an id outside the
\* snapshot does not stand in for a missing member.
C27_PollCompletesOnSnapshot ==
    [][\A t \in TxIds :
         /\ VotePollCompletes(t) =>
               \A p \in Snapshot(t) : p \in DOMAIN transactions[t].votes
         /\ AckPollCompletes(t) =>
               \A p \in Snapshot(t) : p \in DOMAIN transactions[t].acks]_vars

\* a step of the driver thread of t
DriverStep(t) == t \in DOMAIN drv /\ drv'[t] # drv[t]

\* C28: crash cancels the driver: a step the driver of a transaction takes
\* while the coordinator's crash flag is set delivers no PREPARE, COMMIT or
\* ABORT, leaves the transaction's status as it is and appends nothing to the
\* history.
C28_CrashCancelsDriver ==
    [][\A t \in TxIds :
         (crashed /\ DriverStep(t)) =>
            /\ transactions'[t].status = transactions[t].status
            /\ transaction_history' = transaction_history
            /\ UNCHANGED <<pending_vote, pending_commit, pending_abort>>]_vars

\* C29: an immediate reply on a Phase 2 connection counts as that
\* participant's ack: when the driver's COMMIT or ABORT is answered directly
\* with ACK_COMMIT or ACK_ABORT, the driver enters an ack for that participant
\* in the acks it publishes for the poll.
C29_ImmediateReplyIsAck ==
    [][\A t \in TxIds : \A p \in ParticipantIds :
         (DriverSendsDecision(t, p) /\ ~crashed
            /\ drv'[t].response \in {"ACK_COMMIT", "ACK_ABORT"}) =>
               p \in DOMAIN drv'[t].acks]_vars

\* C30: every PREPARE a running participant has accepted into pending_vote
\* is eventually followed by a vote of that participant for that transaction
\* sent to the coordinator, also when a second transaction's PREPARE arrives
\* before the first has been voted on.
C30_PrepareLeadsToVote ==
    \A p \in ParticipantIds : \A t \in 1..MaxConcurrent :
       Holds(pending_vote[p], t) ~> (Voted(p, t, TRUE) \/ Voted(p, t, FALSE))

\* C31: a running participant that holds an id in prepared and has accepted
\* a COMMIT for it into pending_commit eventually has the id out of prepared
\* (the operator's ack or the commit timeout worker promotes it), also when a
\* COMMIT or ABORT of another transaction reaches the participant meanwhile.
C31_CommitLeadsOutOfPrepared ==
    \A p \in ParticipantIds : \A t \in 1..MaxConcurrent :
       (Holds(pending_commit[p], t) /\ InPrepared(p, t)) ~> ~InPrepared(p, t)

\* p puts a vote, or an ack, for t on its way to the coordinator
SendsVote(p, t) == \E yes \in BOOLEAN : VoteEnvelope(p, t, yes) \in net' \ net
SendsAck(p, t) ==
    \E ack \in {"ACK_COMMIT", "ACK_ABORT"} : AckEnvelope(p, t, ack) \in net' \ net

\* a step of p's own threads (timeout worker or operator command): no message
\* of the coordinator is delivered and p does not register or resynchronise
LocalStep(p) == drv' = drv /\ rec' = rec /\ p_pc'[p] = p_pc[p]

\* what p holds about t in its three collections
Holding(p, t) == <<InPrepared(p, t), InCommitted(p, t), InAborted(p, t)>>
HoldingNext(p, t) ==
    <<t \in prepared_transactions'[p], t \in DOMAIN committed_transactions'[p],
      t \in aborted_transactions'[p]>>

\* C32: a timeout worker spawned for an id acts only if its pending slot
\* still holds that id: a vote for t leaves p only in a step that starts with
\* t in pending_vote, an ack for t only in a step that starts with t in
\* pending_commit or pending_abort, and a step of p's own threads changes what
\* p holds about t only when one of the three slots holds t.
C32_WorkerChecksSlot ==
    [][\A p \in ParticipantIds : \A t \in 1..MaxConcurrent :
         /\ SendsVote(p, t) => Holds(pending_vote[p], t)
         /\ SendsAck(p, t) =>
               Holds(pending_commit[p], t) \/ Holds(pending_abort[p], t)
         /\ (LocalStep(p) /\ HoldingNext(p, t) # Holding(p, t)) =>
               \/ Holds(pending_vote[p], t)
               \/ Holds(pending_commit[p], t)
               \/ Holds(pending_abort[p], t)]_vars

\* C32: the vote poll of a transaction has run past its deadline, so the
\* participant's 30 s worker for it has fired, the participant's slot had been
\* taken over by another transaction's PREPARE, and no vote of the
\* participant for the first transaction was ever sent
C32_Witness ==
    \E t, u \in TxIds :
       /\ t # u
       /\ t \in DOMAIN drv /\ drv[t].pc \in {"send2", "ackwait", "acklast", "append", "done"}
       /\ FirstParticipant \in Snapshot(t)
       /\ \A yes \in BOOLEAN : ~Voted(FirstParticipant, t, yes)
       /\ \E yes \in BOOLEAN : Voted(FirstParticipant, u, yes)

\* C33: no vote or ack is sent to the coordinator while the participant's
\* lock is held: no send of an operator command or of a timeout worker is
\* made inside a 'with self.lock' block.
C33_NoSendUnderLock == "locked_send" \notin seen

\* C34: no accepted vote or ack is lost: once the votes map (the acks map) of
\* a transaction holds an entry for a snapshot member, no later step removes
\* it, so the driver finds it when it decides (when it tallies the acks); this
\* includes an entry stored while the driver is still dispatching.
C34_NoVoteOrAckLost ==
    [][\A t \in TxIds : \A p \in Snapshot(t) :
         /\ p \in DOMAIN transactions[t].votes => p \in DOMAIN transactions'[t].votes
         /\ p \in DOMAIN transactions[t].acks => p \in DOMAIN transactions'[t].acks]_vars

\* C35: commit validity: whenever a participant holds a transaction id in its
\* committed collection, the coordinator's record of that transaction has
\* status COMMITTING or COMMITTED, and every member of the transaction's
\* snapshot has voted YES for it (and so has had the id in prepared); the
\* votes sent are on record in the runs without a crash command.
C35_CommitValidity ==
    \A p \in ParticipantIds : \A t \in 1..MaxTx :
       InCommitted(p, t) =>
          /\ t \in TxIds
          /\ transactions[t].status \in {"COMMITTING", "COMMITTED"}
          /\ CrashFree => \A q \in Snapshot(t) : Voted(q, t, TRUE)

\* C36: a crashed participant is inert: in every step from its 'crash' up to
\* its 'recover' its prepared, committed and aborted collections do not
\* change and no VOTE_RESPONSE or ACK_RESPONSE of its leaves for the
\* coordinator, whether by an operator command or by a timeout worker that
\* was started before the crash.
C36_CrashedParticipantInert ==
    [][\A p \in ParticipantIds : \A t \in 1..MaxTx :
         (p_crashed[p] /\ p_pc[p] = "idle" /\ p_pc'[p] = "idle") =>
            /\ CollectionsUnchanged(p)
            /\ ~SendsVote(p, t)
            /\ ~SendsAck(p, t)]_vars

\* the step takes the pending PREPARE, COMMIT or ABORT of t out of p's slot
TakesVote(p, t) == Holds(pending_vote[p], t) /\ pending_vote'[p] = NONE
TakesCommit(p, t) == Holds(pending_commit[p], t) /\ pending_commit'[p] = NONE
TakesAbort(p, t) == Holds(pending_abort[p], t) /\ pending_abort'[p] = NONE

\* the step puts a message of t into a slot of p
Fills(p, t) ==
    \/ Holds(pending_vote'[p], t) /\ pending_vote'[p] # pending_vote[p]
    \/ Holds(pending_commit'[p], t) /\ pending_commit'[p] # pending_commit[p]
    \/ Holds(pending_abort'[p], t) /\ pending_abort'[p] # pending_abort[p]

\* C37: the operator's command and the timeout worker exclude each other on
\* a pending message: every step in which a participant sends a vote takes
\* the PREPARE out of pending_vote, every step in which it sends an ack or
\* changes a collection for a pending message takes that COMMIT or ABORT (for
\* a YES vote, that PREPARE) out of its slot, and a slot is filled again only
\* by the delivery of a message; so one accepted message is answered at most
\* once, by whichever of the two comes first.
C37_CommandAndWorkerExclusive ==
    [][\A p \in ParticipantIds : \A t \in 1..MaxTx :
         /\ SendsVote(p, t) => TakesVote(p, t)
         /\ SendsAck(p, t) => (TakesCommit(p, t) \/ TakesAbort(p, t))
         /\ (LocalStep(p) /\ HoldingNext(p, t) # Holding(p, t)) =>
               (TakesVote(p, t) \/ TakesCommit(p, t) \/ TakesAbort(p, t))
         /\ Fills(p, t) => RequestDelivered(t, p)]_vars

\* C37: the operator voted YES on a PREPARE, the vote poll of the transaction
\* then ran to its deadline (no NO vote was sent by anyone, and still the
\* transaction is aborting), so the participant's 30 s worker has woken up,
\* and no second vote of the participant was sent
C37_Witness ==
    \E t \in TxIds :
       /\ FirstParticipant \in Snapshot(t)
       /\ Voted(FirstParticipant, t, TRUE)
       /\ \A q \in ParticipantIds : ~Voted(q, t, FALSE)
       /\ transactions[t].status \in {"ABORTING", "ABORTED"}
====
